---- MODULE Spec2Model ----
(***************************************************************************)
(* Model of the structured-logging facade of sellsuki-go-logger            *)
(* (src/slog.go): the field primitives, the payload builders, the record   *)
(* composition done by the emission methods, Configure and the lazily      *)
(* built default instance returned by L().                                 *)
(*                                                                         *)
(* Go values of static type interface{} are modelled as boxes              *)
(* [type |-> <dynamic type>, val |-> <value>]; Go maps as functions over   *)
(* a set of string keys; pointers as indexes into heap / sinks, 0 = nil.   *)
(***************************************************************************)
EXTENDS Integers, Sequences, FiniteSets

\* sukiLogger  the package variable: Nil or the index in heap of the instance
\* heap        the SukiLogger values allocated so far, [config, zapInstance]
\* sinks       the zap loggers built so far, [level, synced]
\* pc          where each goroutine is inside L() or Configure
\* local       each goroutine's locals: s (the pointer L() returned and the
\*             receiver of its calls), logger (the sink it built), c and err of
\*             its Configure call; and, recorded for the properties, pre (the
\*             receiver's value when Configure was called), applied (the c of
\*             its last Configure that returned nil) and ncfg (calls made)
\* emit        <<>> or <<the call in progress on the sink>>
\* halted      the process has panicked or exited
\* built       inputs and result of a WithError call (SpecBuilders)
VARIABLES sukiLogger, heap, sinks, pc, local, emit, halted, built

vars == <<sukiLogger, heap, sinks, pc, local, emit, halted, built>>

----------------------------------------------------------------------------
(* Bounds of the model *)

NumProcs == 3
MaxArgs == 3
MaxBodyLen == 2
MaxBodySizeBound == 1
MaxConfigure == 2
MaxStack == 3

----------------------------------------------------------------------------
(* Program constants *)

LevelDebug == -1
LevelInfo == 0
LevelWarn == 1
LevelError == 2
LevelPanic == 4
LevelFatal == 5

LevelNone == 0
LevelAlert == 1

BodyTooLarge == "body is too large"

Nil == 0
\* the goroutine that configures and logs
Main == CHOOSE p \in 1..NumProcs : \A q \in 1..NumProcs : p <= q
Procs == 1..NumProcs

Box(t, v) == [type |-> t, val |-> v]

EmptyMap == [k \in {} |-> k]

Put(m, k, v) == [x \in (DOMAIN m) \cup {k} |-> IF x = k THEN v ELSE m[x]]

ZeroConfig == [LogLevel |-> 0, AppName |-> "", Version |-> "", MaxBodySize |-> 0]

ZeroErrorInfo == [Name |-> "", StackTrace |-> ""]

----------------------------------------------------------------------------
(* Field primitives and payload builders *)

Any(key, value) == [Key |-> key, Value |-> value]

\* an error value is [isNil |-> BOOLEAN, msg |-> STRING]; err.Error() is its msg
Error(err) ==
    IF ~err.isNil THEN Any("error", Box("string", err.msg))
                 ELSE Any("error", Box("string", ""))

WithTracing(traceID, spanID, requestID) ==
    LET reqID == IF Len(requestID) > 0 THEN requestID[1] ELSE ""
    IN  [TraceID |-> traceID, SpanID |-> spanID, RequestID |-> reqID]

WithOption(opts) == opts

\* faulty variant of WithError: always takes the first variadic value
WithError_Index0(name, stacktrace) ==
    LET trace == IF Len(stacktrace) >= 1 THEN stacktrace[1] ELSE ""
    IN  [Name |-> name, StackTrace |-> trace]

\* Go indexes from 0: stacktrace[0] is stacktrace[1] here, stacktrace[1] is [2]
WithError(name, stacktrace) ==
    LET trace == IF Len(stacktrace) = 1 THEN stacktrace[1]
                 ELSE IF Len(stacktrace) > 1 THEN stacktrace[2]
                 ELSE ""
    IN  [Name |-> name, StackTrace |-> trace]

\* a Go map argument is [isNil |-> BOOLEAN, kv |-> function]
WithHTTPRequest(method, path, remoteIP, headers, params, query, body) ==
    LET h == IF headers.isNil THEN [isNil |-> FALSE, kv |-> EmptyMap] ELSE headers
        p == IF params.isNil THEN [isNil |-> FALSE, kv |-> EmptyMap] ELSE params
        q == IF query.isNil THEN [isNil |-> FALSE, kv |-> EmptyMap] ELSE query
    IN  [Method |-> method, Path |-> path, RemoteIP |-> remoteIP,
         Headers |-> h, Params |-> p, Query |-> q, Body |-> body]

WithHTTPResponse(status, duration, body, error) ==
    LET e == IF Len(error) > 0 THEN error[1] ELSE ZeroErrorInfo
    IN  [Status |-> status, Duration |-> duration, Body |-> body, Error |-> e]

WithKafkaMessage(topic, partition, offset, headers, key, payload, timestamp) ==
    LET h == IF headers.isNil THEN [isNil |-> FALSE, kv |-> EmptyMap] ELSE headers
    IN  [Topic |-> topic, Partition |-> partition, Offset |-> offset,
         Headers |-> h, Key |-> key, Payload |-> payload, Timestamp |-> timestamp]

WithKafkaResult(duration, error) ==
    LET e == IF Len(error) > 0 THEN error[1] ELSE ZeroErrorInfo
    IN  [Duration |-> duration, Error |-> e]

----------------------------------------------------------------------------
(* zap fields *)

zapString(key, v) == [Key |-> key, Type |-> "String", Val |-> v]
zapInt(key, v) == [Key |-> key, Type |-> "Int", Val |-> v]
zapAny(key, v) == [Key |-> key, Type |-> "Any", Val |-> v]

----------------------------------------------------------------------------
(* Record composition *)

\* the TraceInfo / LogOption loop of RequestKafka, RequestHTTP and Event
\* (the three loops are the same text); acc is [data, alertLevel]
\* faulty variant of traceOptScan: the first Alert option sticks
RECURSIVE traceOptScan_FirstOption(_, _, _)
traceOptScan_FirstOption(args, i, acc) ==
    IF i > Len(args) THEN acc
    ELSE LET a == args[i]
             next == IF a.type = "TraceInfo"
                     THEN [acc EXCEPT !.data =
                              Put(@, "tracing", [TraceID |-> a.val.TraceID,
                                                 SpanID |-> a.val.SpanID,
                                                 RequestID |-> ""])]
                     ELSE IF a.type = "LogOption" /\ acc.alertLevel = LevelNone
                     THEN [acc EXCEPT !.alertLevel = a.val.Alert]
                     ELSE acc
         IN  traceOptScan_FirstOption(args, i + 1, next)

\* faulty variant of traceOptScan: stores the TraceInfo whole
RECURSIVE traceOptScan_KeepRequestID(_, _, _)
traceOptScan_KeepRequestID(args, i, acc) ==
    IF i > Len(args) THEN acc
    ELSE LET a == args[i]
             next == IF a.type = "TraceInfo"
                     THEN [acc EXCEPT !.data = Put(@, "tracing", a.val)]
                     ELSE IF a.type = "LogOption"
                     THEN [acc EXCEPT !.alertLevel = a.val.Alert]
                     ELSE acc
         IN  traceOptScan_KeepRequestID(args, i + 1, next)

RECURSIVE traceOptScan(_, _, _)
traceOptScan(args, i, acc) ==
    IF i > Len(args) THEN acc
    ELSE LET a == args[i]
             next == IF a.type = "TraceInfo"
                     THEN [acc EXCEPT !.data =
                              Put(@, "tracing", [TraceID |-> a.val.TraceID,
                                                 SpanID |-> a.val.SpanID,
                                                 RequestID |-> ""])]
                     ELSE IF a.type = "LogOption"
                     THEN [acc EXCEPT !.alertLevel = a.val.Alert]
                     ELSE acc
         IN  traceOptScan(args, i + 1, next)

\* faulty variant of RequestKafkaFields: the log_type of RequestHTTP
RequestKafkaFields_HTTPTag(s, kafkaMessage, kafkaResult, args) ==
    LET appName == zapString("app_name", s.config.AppName)
        version == zapString("version", s.config.Version)
        logType == zapString("log_type", "handler.http")
        r == traceOptScan(args, 1, [data |-> EmptyMap, alertLevel |-> LevelNone])
        data == Put(Put(r.data, "kafka_message", kafkaMessage),
                    "kafka_result", kafkaResult)
    IN  <<appName, version, logType, zapInt("alert", r.alertLevel),
          zapAny("data", data)>>

\* the fields RequestKafka hands to zapInstance.Info
RequestKafkaFields(s, kafkaMessage, kafkaResult, args) ==
    LET appName == zapString("app_name", s.config.AppName)
        version == zapString("version", s.config.Version)
        logType == zapString("log_type", "handler.kafka")
        r == traceOptScan(args, 1, [data |-> EmptyMap, alertLevel |-> LevelNone])
        data == Put(Put(r.data, "kafka_message", kafkaMessage),
                    "kafka_result", kafkaResult)
    IN  <<appName, version, logType, zapInt("alert", r.alertLevel),
          zapAny("data", data)>>

\* faulty variant of RequestHTTPFields: truncates at length = MaxBodySize too
RequestHTTPFields_GreaterEq(s, request, response, args) ==
    LET appName == zapString("app_name", s.config.AppName)
        version == zapString("version", s.config.Version)
        logType == zapString("log_type", "handler.http")
        r == traceOptScan(args, 1, [data |-> EmptyMap, alertLevel |-> LevelNone])
        req == IF s.config.MaxBodySize > 0 /\ Len(request.Body) >= s.config.MaxBodySize
               THEN [request EXCEPT !.Body = BodyTooLarge] ELSE request
        resp == IF s.config.MaxBodySize > 0 /\ Len(response.Body) >= s.config.MaxBodySize
                THEN [response EXCEPT !.Body = BodyTooLarge] ELSE response
        data == Put(Put(r.data, "http_request", req), "http_response", resp)
    IN  <<appName, version, logType, zapInt("alert", r.alertLevel),
          zapAny("data", data)>>

\* the fields RequestHTTP hands to zapInstance.Info
RequestHTTPFields(s, request, response, args) ==
    LET appName == zapString("app_name", s.config.AppName)
        version == zapString("version", s.config.Version)
        logType == zapString("log_type", "handler.http")
        r == traceOptScan(args, 1, [data |-> EmptyMap, alertLevel |-> LevelNone])
        req == IF s.config.MaxBodySize > 0 /\ Len(request.Body) > s.config.MaxBodySize
               THEN [request EXCEPT !.Body = BodyTooLarge] ELSE request
        resp == IF s.config.MaxBodySize > 0 /\ Len(response.Body) > s.config.MaxBodySize
                THEN [response EXCEPT !.Body = BodyTooLarge] ELSE response
        data == Put(Put(r.data, "http_request", req), "http_response", resp)
    IN  <<appName, version, logType, zapInt("alert", r.alertLevel),
          zapAny("data", data)>>

\* the fields Event hands to zapInstance.Info
EventFields(s, event, args) ==
    LET appName == zapString("app_name", s.config.AppName)
        version == zapString("version", s.config.Version)
        logType == zapString("log_type", "event")
        r == traceOptScan(args, 1, [data |-> EmptyMap, alertLevel |-> LevelNone])
        data == Put(r.data, "event", event)
    IN  <<appName, version, logType, zapInt("alert", r.alertLevel),
          zapAny("data", data)>>

\* faulty variant of appLogScan: an earlier LogField of a key is kept
RECURSIVE appLogScan_FirstKeyWins(_, _, _)
appLogScan_FirstKeyWins(args, i, acc) ==
    IF i > Len(args) THEN acc
    ELSE LET a == args[i]
             next == IF a.type = "TraceInfo"
                     THEN [acc EXCEPT !.data = Put(@, "tracing", a.val)]
                     ELSE IF a.type = "LogField"
                     THEN IF a.val.Key \in DOMAIN acc.appData
                          THEN acc
                          ELSE IF a.val.Value.type = "error"
                          THEN [acc EXCEPT !.appData =
                                   Put(@, a.val.Key, Box("string", a.val.Value.val.msg))]
                          ELSE [acc EXCEPT !.appData = Put(@, a.val.Key, a.val.Value)]
                     ELSE IF a.type = "LogOption"
                     THEN [acc EXCEPT !.alertLevel = a.val.Alert]
                     ELSE acc
         IN  appLogScan_FirstKeyWins(args, i + 1, next)

\* the loop of appLogBuilder; acc is [data, appData, alertLevel]
RECURSIVE appLogScan(_, _, _)
appLogScan(args, i, acc) ==
    IF i > Len(args) THEN acc
    ELSE LET a == args[i]
             next == IF a.type = "TraceInfo"
                     THEN [acc EXCEPT !.data = Put(@, "tracing", a.val)]
                     ELSE IF a.type = "LogField"
                     THEN IF a.val.Value.type = "error"
                          THEN [acc EXCEPT !.appData =
                                   Put(@, a.val.Key, Box("string", a.val.Value.val.msg))]
                          ELSE [acc EXCEPT !.appData = Put(@, a.val.Key, a.val.Value)]
                     ELSE IF a.type = "LogOption"
                     THEN [acc EXCEPT !.alertLevel = a.val.Alert]
                     ELSE acc
         IN  appLogScan(args, i + 1, next)

\* faulty variant of appLogBuilder: no data field when the payload is empty
appLogBuilder_OmitEmptyData(s, args) ==
    LET appName == zapString("app_name", s.config.AppName)
        version == zapString("version", s.config.Version)
        logType == zapString("log_type", "application")
        appKey == IF Len(s.config.AppName) <= 0 THEN "payload" ELSE s.config.AppName
        r == appLogScan(args, 1, [data |-> EmptyMap, appData |-> EmptyMap,
                                  alertLevel |-> LevelNone])
        data == IF Cardinality(DOMAIN r.appData) > 0
                THEN Put(r.data, appKey, r.appData) ELSE r.data
    IN  IF DOMAIN data = {}
        THEN <<appName, version, logType, zapInt("alert", r.alertLevel)>>
        ELSE <<appName, version, logType, zapInt("alert", r.alertLevel),
               zapAny("data", data)>>

appLogBuilder(s, args) ==
    LET appName == zapString("app_name", s.config.AppName)
        version == zapString("version", s.config.Version)
        logType == zapString("log_type", "application")
        appKey == IF Len(s.config.AppName) <= 0 THEN "payload" ELSE s.config.AppName
        r == appLogScan(args, 1, [data |-> EmptyMap, appData |-> EmptyMap,
                                  alertLevel |-> LevelNone])
        data == IF Cardinality(DOMAIN r.appData) > 0
                THEN Put(r.data, appKey, r.appData) ELSE r.data
    IN  <<appName, version, logType, zapInt("alert", r.alertLevel),
          zapAny("data", data)>>

----------------------------------------------------------------------------
(* Inputs *)

RECURSIVE BodyOfLen(_)
BodyOfLen(n) == IF n = 0 THEN "" ELSE "x" \o BodyOfLen(n - 1)

Bodies == {BodyOfLen(n) : n \in 0..MaxBodyLen}

AppNames == {"", "app", "tracing"}
Versions == {"1.0.0"}
ConfigLevels == {LevelDebug, LevelError}
MaxBodySizes == (-1)..MaxBodySizeBound

Configs == [LogLevel : ConfigLevels, AppName : AppNames,
            Version : Versions, MaxBodySize : MaxBodySizes]

Messages == {"msg"}

NilMap == [isNil |-> TRUE, kv |-> EmptyMap]
NoErr == [isNil |-> TRUE, msg |-> ""]
Boom == [isNil |-> FALSE, msg |-> "boom"]

ArgUniverse ==
    { Box("TraceInfo", WithTracing("t1", "s1", <<>>)),
      Box("TraceInfo", WithTracing("t2", "s2", <<"r2", "r3">>)),
      Box("LogOption", WithOption([Alert |-> LevelNone])),
      Box("LogOption", WithOption([Alert |-> LevelAlert])),
      Box("LogField", Any("k1", Box("string", "v1"))),
      Box("LogField", Any("k1", Box("error", Boom))),
      Box("LogField", Error(Boom)),
      Box("string", "junk") }

ArgLists == UNION {[1..n -> ArgUniverse] : n \in 0..MaxArgs}

Requests ==
    { WithHTTPRequest("GET", "/orders", "10.0.0.1", NilMap,
                      [isNil |-> FALSE, kv |-> [k \in {"id"} |-> "7"]], NilMap, b)
      : b \in Bodies }

Responses == { WithHTTPResponse(200, 1, b, <<>>) : b \in Bodies }

KafkaMessages == { WithKafkaMessage("orders", 0, 42, NilMap, "key", "payload", 0) }

KafkaResults == { WithKafkaResult(1, <<WithError("E", <<"trace">>)>>) }

Events == { [Entity |-> "order", Action |-> "create", Result |-> "success",
             ReferenceID |-> "ref-1", Data |-> "d"] }

StackStrings == {"a", "b", "c"}
StackTraces == UNION {[1..n -> StackStrings] : n \in 0..MaxStack}
ErrorNames == {"x", "y"}

----------------------------------------------------------------------------
(* State *)

ZeroLocal == [s |-> Nil, logger |-> Nil, c |-> ZeroConfig, err |-> FALSE,
              pre |-> [config |-> ZeroConfig, zapInstance |-> Nil],
              applied |-> <<>>, ncfg |-> 0]

NotBuilt == [name |-> "", stacktrace |-> <<>>, done |-> FALSE, out |-> ZeroErrorInfo]

Init ==
    /\ sukiLogger = Nil
    /\ heap = <<>>
    /\ sinks = <<>>
    /\ pc = [p \in Procs |-> "idle"]
    /\ local = [p \in Procs |-> ZeroLocal]
    /\ emit = <<>>
    /\ halted = FALSE
    /\ built = NotBuilt

----------------------------------------------------------------------------
(* L(): the lazily built default instance, one step per shared access *)

L_Check(p) ==
    /\ ~halted
    /\ pc[p] \in {"idle", "ready"}
    /\ pc' = [pc EXCEPT ![p] = IF sukiLogger = Nil THEN "L_build" ELSE "L_return"]
    /\ UNCHANGED <<sukiLogger, heap, sinks, local, emit, halted, built>>

\* logger, _ := config.Build(...): the error is dropped, logger is nil on failure
L_Build(p) ==
    /\ ~halted
    /\ pc[p] = "L_build"
    /\ \/ /\ sinks' = Append(sinks, [level |-> LevelFatal, synced |-> FALSE])
          /\ local' = [local EXCEPT ![p].logger = Len(sinks) + 1]
       \/ /\ local' = [local EXCEPT ![p].logger = Nil]
          /\ UNCHANGED sinks
    /\ pc' = [pc EXCEPT ![p] = "L_assign"]
    /\ UNCHANGED <<sukiLogger, heap, emit, halted, built>>

L_Assign(p) ==
    /\ ~halted
    /\ pc[p] = "L_assign"
    /\ heap' = Append(heap, [config |-> ZeroConfig, zapInstance |-> local[p].logger])
    /\ sukiLogger' = Len(heap) + 1
    /\ pc' = [pc EXCEPT ![p] = "L_return"]
    /\ UNCHANGED <<sinks, local, emit, halted, built>>

L_Return(p) ==
    /\ ~halted
    /\ pc[p] = "L_return"
    /\ local' = [local EXCEPT ![p].s = sukiLogger]
    /\ pc' = [pc EXCEPT ![p] = "ready"]
    /\ UNCHANGED <<sukiLogger, heap, sinks, emit, halted, built>>

----------------------------------------------------------------------------
(* Configure *)

ConfigureCall(p, c) ==
    /\ ~halted
    /\ pc[p] = "ready"
    /\ local[p].ncfg < MaxConfigure
    /\ local' = [local EXCEPT ![p].c = c, ![p].err = FALSE,
                               ![p].pre = heap[local[p].s], ![p].ncfg = @ + 1]
    /\ pc' = [pc EXCEPT ![p] = "C_build"]
    /\ UNCHANGED <<sukiLogger, heap, sinks, emit, halted, built>>

\* logger, err := config.Build(...); if err != nil { return err }
ConfigureBuild(p) ==
    /\ ~halted
    /\ pc[p] = "C_build"
    /\ \/ /\ sinks' = Append(sinks, [level |-> local[p].c.LogLevel, synced |-> FALSE])
          /\ local' = [local EXCEPT ![p].logger = Len(sinks) + 1]
          /\ pc' = [pc EXCEPT ![p] = "C_setzap"]
       \/ /\ local' = [local EXCEPT ![p].err = TRUE]
          /\ pc' = [pc EXCEPT ![p] = "C_return"]
          /\ UNCHANGED sinks
    /\ UNCHANGED <<sukiLogger, heap, emit, halted, built>>

ConfigureSetZap(p) ==
    /\ ~halted
    /\ pc[p] = "C_setzap"
    /\ heap' = [heap EXCEPT ![local[p].s].zapInstance = local[p].logger]
    /\ pc' = [pc EXCEPT ![p] = "C_setconfig"]
    /\ UNCHANGED <<sukiLogger, sinks, local, emit, halted, built>>

\* faulty variant of ConfigureSetConfig: s.config is not assigned
ConfigureSetConfig_Skip(p) ==
    /\ ~halted
    /\ pc[p] = "C_setconfig"
    /\ pc' = [pc EXCEPT ![p] = "C_sync"]
    /\ UNCHANGED <<sukiLogger, heap, sinks, local, emit, halted, built>>

ConfigureSetConfig(p) ==
    /\ ~halted
    /\ pc[p] = "C_setconfig"
    /\ heap' = [heap EXCEPT ![local[p].s].config = local[p].c]
    /\ pc' = [pc EXCEPT ![p] = "C_sync"]
    /\ UNCHANGED <<sukiLogger, sinks, local, emit, halted, built>>

\* defer logger.Sync(): runs on the return path, on the sink built by this call
ConfigureDeferredSync(p) ==
    /\ ~halted
    /\ pc[p] = "C_sync"
    /\ sinks' = [sinks EXCEPT ![local[p].logger].synced = TRUE]
    /\ pc' = [pc EXCEPT ![p] = "C_return"]
    /\ UNCHANGED <<sukiLogger, heap, local, emit, halted, built>>

ConfigureReturn(p) ==
    /\ ~halted
    /\ pc[p] = "C_return"
    /\ local' = [local EXCEPT ![p].applied =
                     IF local[p].err THEN @ ELSE <<local[p].c>>]
    /\ pc' = [pc EXCEPT ![p] = "ready"]
    /\ UNCHANGED <<sukiLogger, heap, sinks, emit, halted, built>>

----------------------------------------------------------------------------
(* Emission *)

\* s.zapInstance.<Level>(message, fields...): the call handed to the sink.
\* The receiver s is a copy of the instance; a nil zapInstance panics.
\* method, args, in and s record the call the fields were composed for.
ZapLog(p, method, level, message, fields, args, in) ==
    LET s == heap[local[p].s]
    IN  IF s.zapInstance = Nil
        THEN /\ halted' = TRUE
             /\ UNCHANGED <<emit, pc>>
        ELSE /\ emit' = <<[sink |-> s.zapInstance, level |-> level,
                           message |-> message, fields |-> fields,
                           written |-> level >= sinks[s.zapInstance].level,
                           method |-> method, args |-> args, in |-> in,
                           s |-> s, p |-> p]>>
             /\ pc' = [pc EXCEPT ![p] = "in_zap"]
             /\ UNCHANGED halted

Info(p, message, args) ==
    /\ ~halted
    /\ pc[p] = "ready"
    /\ ZapLog(p, "Info", LevelInfo, message,
              appLogBuilder(heap[local[p].s], args), args, EmptyMap)
    /\ UNCHANGED <<sukiLogger, heap, sinks, local, built>>

Debug(p, message, args) ==
    /\ ~halted
    /\ pc[p] = "ready"
    /\ ZapLog(p, "Debug", LevelDebug, message,
              appLogBuilder(heap[local[p].s], args), args, EmptyMap)
    /\ UNCHANGED <<sukiLogger, heap, sinks, local, built>>

Error_(p, message, args) ==
    /\ ~halted
    /\ pc[p] = "ready"
    /\ ZapLog(p, "Error", LevelError, message,
              appLogBuilder(heap[local[p].s], args), args, EmptyMap)
    /\ UNCHANGED <<sukiLogger, heap, sinks, local, built>>

Warn(p, message, args) ==
    /\ ~halted
    /\ pc[p] = "ready"
    /\ ZapLog(p, "Warn", LevelWarn, message,
              appLogBuilder(heap[local[p].s], args), args, EmptyMap)
    /\ UNCHANGED <<sukiLogger, heap, sinks, local, built>>

Panic(p, message, args) ==
    /\ ~halted
    /\ pc[p] = "ready"
    /\ ZapLog(p, "Panic", LevelPanic, message,
              appLogBuilder(heap[local[p].s], args), args, EmptyMap)
    /\ UNCHANGED <<sukiLogger, heap, sinks, local, built>>

Fatal(p, message, args) ==
    /\ ~halted
    /\ pc[p] = "ready"
    /\ ZapLog(p, "Fatal", LevelFatal, message,
              appLogBuilder(heap[local[p].s], args), args, EmptyMap)
    /\ UNCHANGED <<sukiLogger, heap, sinks, local, built>>

RequestKafka(p, message, kafkaMessage, kafkaResult, args) ==
    /\ ~halted
    /\ pc[p] = "ready"
    /\ ZapLog(p, "RequestKafka", LevelInfo, message,
              RequestKafkaFields(heap[local[p].s], kafkaMessage, kafkaResult, args),
              args, [kafkaMessage |-> kafkaMessage, kafkaResult |-> kafkaResult])
    /\ UNCHANGED <<sukiLogger, heap, sinks, local, built>>

RequestHTTP(p, message, request, response, args) ==
    /\ ~halted
    /\ pc[p] = "ready"
    /\ ZapLog(p, "RequestHTTP", LevelInfo, message,
              RequestHTTPFields(heap[local[p].s], request, response, args),
              args, [request |-> request, response |-> response])
    /\ UNCHANGED <<sukiLogger, heap, sinks, local, built>>

Event(p, message, event, args) ==
    /\ ~halted
    /\ pc[p] = "ready"
    /\ ZapLog(p, "Event", LevelInfo, message,
              EventFields(heap[local[p].s], event, args),
              args, [event |-> event])
    /\ UNCHANGED <<sukiLogger, heap, sinks, local, built>>

\* the sink call returns; zap's Panic panics and Fatal exits after logging
ZapReturn(p) ==
    /\ ~halted
    /\ pc[p] = "in_zap"
    /\ emit # <<>>
    /\ emit[1].p = p
    /\ halted' = (emit[1].level \in {LevelPanic, LevelFatal})
    /\ emit' = <<>>
    /\ pc' = [pc EXCEPT ![p] = "ready"]
    /\ UNCHANGED <<sukiLogger, heap, sinks, local, built>>

----------------------------------------------------------------------------
(* A call of the pure builder WithError on inputs drawn at Init *)

CallWithError ==
    /\ ~built.done
    /\ built' = [built EXCEPT !.done = TRUE,
                              !.out = WithError(built.name, built.stacktrace)]
    /\ UNCHANGED <<sukiLogger, heap, sinks, pc, local, emit, halted>>

----------------------------------------------------------------------------
(* Specifications *)

\* a goroutine that is between calls; stated ahead of the quantifiers over the
\* calls' inputs (every emission action repeats it as its guard)
Ready(p) == ~halted /\ pc[p] = "ready"

\* Spec: one goroutine obtains the default instance, configures it (up to
\* MaxConfigure times) and logs; the calls carry no context arguments here,
\* SpecEmit varies them.
NoArgs == {<<>>}

Next ==
    \/ L_Check(Main)
    \/ L_Build(Main)
    \/ L_Assign(Main)
    \/ L_Return(Main)
    \/ \E c \in Configs : ConfigureCall(Main, c)
    \/ ConfigureBuild(Main)
    \/ ConfigureSetZap(Main)
    \/ ConfigureSetConfig(Main)
    \/ ConfigureDeferredSync(Main)
    \/ ConfigureReturn(Main)
    \/ Ready(Main) /\ \E m \in Messages, args \in NoArgs : Info(Main, m, args)
    \/ Ready(Main) /\ \E m \in Messages, args \in NoArgs : Debug(Main, m, args)
    \/ Ready(Main) /\ \E m \in Messages, args \in NoArgs : Error_(Main, m, args)
    \/ Ready(Main) /\ \E m \in Messages, args \in NoArgs : Warn(Main, m, args)
    \/ Ready(Main) /\ \E m \in Messages, args \in NoArgs : Panic(Main, m, args)
    \/ Ready(Main) /\ \E m \in Messages, args \in NoArgs : Fatal(Main, m, args)
    \/ Ready(Main) /\ \E m \in Messages, km \in KafkaMessages, kr \in KafkaResults, args \in NoArgs :
          RequestKafka(Main, m, km, kr, args)
    \/ Ready(Main) /\ \E m \in Messages, req \in Requests, resp \in Responses, args \in NoArgs :
          RequestHTTP(Main, m, req, resp, args)
    \/ Ready(Main) /\ \E m \in Messages, ev \in Events, args \in NoArgs : Event(Main, m, ev, args)
    \/ ZapReturn(Main)

Spec == Init /\ [][Next]_vars

\* SpecEmit: the emission methods on an instance that L() returned and that
\* is either still unconfigured or was configured once with some c in Configs
\* (the states Spec reaches after L() and after a successful Configure(c)).
Unconfigured ==
    /\ sukiLogger = 1
    /\ heap = <<[config |-> ZeroConfig, zapInstance |-> 1]>>
    /\ sinks = <<[level |-> LevelFatal, synced |-> FALSE]>>
    /\ pc = [p \in Procs |-> IF p = Main THEN "ready" ELSE "idle"]
    /\ local = [p \in Procs |->
                  IF p = Main THEN [ZeroLocal EXCEPT !.s = 1, !.logger = 1]
                              ELSE ZeroLocal]

Configured(c) ==
    /\ sukiLogger = 1
    /\ heap = <<[config |-> c, zapInstance |-> 2]>>
    /\ sinks = <<[level |-> LevelFatal, synced |-> FALSE],
                 [level |-> c.LogLevel, synced |-> TRUE]>>
    /\ pc = [p \in Procs |-> IF p = Main THEN "ready" ELSE "idle"]
    /\ local = [p \in Procs |->
                  IF p = Main
                  THEN [s |-> 1, logger |-> 2, c |-> c, err |-> FALSE,
                        pre |-> [config |-> ZeroConfig, zapInstance |-> 1],
                        applied |-> <<c>>, ncfg |-> 1]
                  ELSE ZeroLocal]

InitEmit ==
    /\ Unconfigured \/ \E c \in Configs : Configured(c)
    /\ emit = <<>>
    /\ halted = FALSE
    /\ built = NotBuilt

NextEmit ==
    \/ Ready(Main) /\ \E m \in Messages, args \in ArgLists : Info(Main, m, args)
    \/ Ready(Main) /\ \E m \in Messages, args \in ArgLists : Debug(Main, m, args)
    \/ Ready(Main) /\ \E m \in Messages, args \in ArgLists : Error_(Main, m, args)
    \/ Ready(Main) /\ \E m \in Messages, args \in ArgLists : Warn(Main, m, args)
    \/ Ready(Main) /\ \E m \in Messages, args \in ArgLists : Panic(Main, m, args)
    \/ Ready(Main) /\ \E m \in Messages, args \in ArgLists : Fatal(Main, m, args)
    \/ Ready(Main) /\ \E m \in Messages, km \in KafkaMessages, kr \in KafkaResults, args \in ArgLists :
          RequestKafka(Main, m, km, kr, args)
    \/ Ready(Main) /\ \E m \in Messages, req \in Requests, resp \in Responses, args \in ArgLists :
          RequestHTTP(Main, m, req, resp, args)
    \/ Ready(Main) /\ \E m \in Messages, ev \in Events, args \in ArgLists : Event(Main, m, ev, args)
    \/ ZapReturn(Main)

SpecEmit == InitEmit /\ [][NextEmit]_vars

\* SpecRace: several goroutines call L() concurrently
NextRace ==
    \E p \in Procs :
        \/ L_Check(p)
        \/ L_Build(p)
        \/ L_Assign(p)
        \/ L_Return(p)

SpecRace == Init /\ [][NextRace]_vars

\* SpecBuilders: the pure builder WithError applied to every bounded input
InitBuilders ==
    /\ sukiLogger = Nil
    /\ heap = <<>>
    /\ sinks = <<>>
    /\ pc = [p \in Procs |-> "idle"]
    /\ local = [p \in Procs |-> ZeroLocal]
    /\ emit = <<>>
    /\ halted = FALSE
    /\ built \in {[name |-> n, stacktrace |-> st, done |-> FALSE, out |-> ZeroErrorInfo]
                    : n \in ErrorNames, st \in StackTraces}

NextBuilders == CallWithError

SpecBuilders == InitBuilders /\ [][NextBuilders]_vars

----------------------------------------------------------------------------
(* Properties *)

Leveled == {"Info", "Debug", "Warn", "Error", "Panic", "Fatal"}
Specialized == {"RequestHTTP", "RequestKafka", "Event"}

\* the value of the top-level field named key of a sink call
Fld(call, key) ==
    LET i == CHOOSE i \in 1..Len(call.fields) : call.fields[i].Key = key
    IN  call.fields[i].Val

Keys(call) == [i \in 1..Len(call.fields) |-> call.fields[i].Key]

\* index of the last argument of dynamic type t, 0 when there is none
LastIdx(args, t) ==
    LET S == {i \in 1..Len(args) : args[i].type = t}
    IN  IF S = {} THEN 0 ELSE CHOOSE i \in S : \A j \in S : j <= i

\* index of the last LogField of args with key k
LastKeyIdx(args, k) ==
    CHOOSE i \in 1..Len(args) :
        /\ args[i].type = "LogField" /\ args[i].val.Key = k
        /\ \A j \in (i + 1)..Len(args) :
              ~(args[j].type = "LogField" /\ args[j].val.Key = k)

FieldKeys(args) == {args[i].val.Key : i \in {j \in 1..Len(args) : args[j].type = "LogField"}}

AsStored(v) == IF v.type = "error" THEN Box("string", v.val.msg) ELSE v

AppKey(call) == IF call.s.config.AppName = "" THEN "payload" ELSE call.s.config.AppName

TraceOnly(t) == [TraceID |-> t.TraceID, SpanID |-> t.SpanID, RequestID |-> ""]

\* C1: for any interleaving of concurrent first calls to L(), every call
\* returns the same instance and the backend sink is constructed exactly once
\* (at most one sink and one instance are ever built, and all returned
\* pointers agree).
C1_SingletonBuiltOnce ==
    /\ Len(sinks) <= 1
    /\ Len(heap) <= 1
    /\ \A p, q \in Procs :
          (pc[p] = "ready" /\ pc[q] = "ready") => local[p].s = local[q].s

C3_OldSinkFlushedBeforeOverwrite ==
    [][\A i \in DOMAIN heap :
          (heap[i].zapInstance # Nil /\ heap'[i].zapInstance # heap[i].zapInstance)
              => sinks[heap[i].zapInstance].synced]_vars

\* C4: every record handed to the sink has exactly the top-level fields
\* app_name, version, log_type, alert and one "data" map; app_name and version
\* are the instance's, the call-specific payload keys are inside "data" and
\* never at top level, and "data" is present even when it is empty.
C4_RecordShape ==
    emit # <<>> =>
        LET call == emit[1]
            data == Fld(call, "data")
        IN  /\ Keys(call) = <<"app_name", "version", "log_type", "alert", "data">>
            /\ call.fields[5].Type = "Any"
            /\ Fld(call, "app_name") = call.s.config.AppName
            /\ Fld(call, "version") = call.s.config.Version
            /\ Fld(call, "alert") \in {LevelNone, LevelAlert}
            /\ DOMAIN data \subseteq
                  {"tracing", AppKey(call), "http_request", "http_response",
                   "kafka_message", "kafka_result", "event"}
            /\ call.method = "RequestHTTP" =>
                  {"http_request", "http_response"} \subseteq DOMAIN data
            /\ call.method = "RequestKafka" =>
                  /\ data["kafka_message"] = call.in.kafkaMessage
                  /\ data["kafka_result"] = call.in.kafkaResult
            /\ call.method = "Event" => data["event"] = call.in.event
            /\ (call.method \in Leveled /\ LastIdx(call.args, "LogField") > 0) =>
                  AppKey(call) \in DOMAIN data

C4_Witness ==
    /\ emit # <<>>
    /\ emit[1].method = "Warn"
    /\ emit[1].args = <<>>
    /\ DOMAIN Fld(emit[1], "data") = {}

\* C5: the emitted alert field is the Alert of the last LogOption of args in
\* call-site order, whatever else is interleaved, and None (0) when args has
\* no LogOption.
C5_AlertIsLastOption ==
    emit # <<>> =>
        LET call == emit[1]
            i == LastIdx(call.args, "LogOption")
        IN  Fld(call, "alert") = IF i = 0 THEN LevelNone ELSE call.args[i].val.Alert

C5_Witness ==
    /\ emit # <<>>
    /\ emit[1].method = "Event"
    /\ Len(emit[1].args) = 3
    /\ emit[1].args[1] = Box("LogOption", [Alert |-> LevelAlert])
    /\ emit[1].args[2].type = "LogField"
    /\ emit[1].args[3] = Box("LogOption", [Alert |-> LevelNone])
    /\ Fld(emit[1], "alert") = LevelNone

\* C6: RequestHTTP emits "body is too large" for the request body iff
\* MaxBodySize > 0 and the body is longer than MaxBodySize, and the original
\* body otherwise (also at length = MaxBodySize); the same, independently, for
\* the response body; nothing else of request and response changes.
C6_BodyTruncation ==
    (emit # <<>> /\ emit[1].method = "RequestHTTP") =>
        LET call == emit[1]
            max == call.s.config.MaxBodySize
            data == Fld(call, "data")
            Expect(b) == IF max > 0 /\ Len(b) > max THEN "body is too large" ELSE b
        IN  /\ data["http_request"] =
                  [call.in.request EXCEPT !.Body = Expect(call.in.request.Body)]
            /\ data["http_response"] =
                  [call.in.response EXCEPT !.Body = Expect(call.in.response.Body)]

C6_Witness ==
    /\ emit # <<>>
    /\ emit[1].method = "RequestHTTP"
    /\ emit[1].s.config.MaxBodySize = 1
    /\ Len(emit[1].in.request.Body) = 2
    /\ Len(emit[1].in.response.Body) = 1
    /\ Fld(emit[1], "data")["http_request"].Body = "body is too large"
    /\ Fld(emit[1], "data")["http_response"].Body = emit[1].in.response.Body

\* C7: for the leveled methods the LogFields of args are merged by key into
\* the sub-object of "data" keyed by the application name, or by "payload"
\* when the name is empty; the last LogField of a key wins, and an error
\* value is stored as its message string.
C7_FieldsMerged ==
    (emit # <<>> /\ emit[1].method \in Leveled
                 /\ LastIdx(emit[1].args, "LogField") > 0) =>
        LET call == emit[1]
            data == Fld(call, "data")
            key == IF call.s.config.AppName = "" THEN "payload"
                   ELSE call.s.config.AppName
        IN  /\ key \in DOMAIN data
            /\ data[key] =
                  [k \in FieldKeys(call.args) |->
                      AsStored(call.args[LastKeyIdx(call.args, k)].val.Value)]

C7_Witness ==
    /\ emit # <<>>
    /\ emit[1].method = "Error"
    /\ emit[1].s.config.AppName = ""
    /\ Len(emit[1].args) >= 2
    /\ emit[1].args[1] = Box("LogField", [Key |-> "k1", Value |-> Box("string", "v1")])
    /\ emit[1].args[2] = Box("LogField", [Key |-> "k1", Value |-> Box("error", Boom)])
    /\ Fld(emit[1], "data")["payload"]["k1"] = Box("string", "boom")

\* C8: RequestHTTP, RequestKafka and Event hand their record to the sink at
\* Info severity, with log_type "handler.http", "handler.kafka" and "event".
C8_SpecializedInfoAndTag ==
    (emit # <<>> /\ emit[1].method \in Specialized) =>
        /\ emit[1].level = LevelInfo
        /\ Fld(emit[1], "log_type") =
              IF emit[1].method = "RequestHTTP" THEN "handler.http"
              ELSE IF emit[1].method = "RequestKafka" THEN "handler.kafka"
              ELSE "event"

C8_Witness ==
    /\ emit # <<>>
    /\ emit[1].method = "RequestKafka"
    /\ emit[1].s.config.LogLevel = LevelError
    /\ LastIdx(emit[1].args, "LogOption") > 0
    /\ Fld(emit[1], "log_type") = "handler.kafka"

\* C9: WithError(name, stacktrace...) has Name = name and StackTrace = the one
\* variadic value when exactly one is given, the second one when two or more
\* are given, and "" when none is.
C9_WithErrorStackTrace ==
    built.done =>
        /\ built.out.Name = built.name
        /\ Len(built.stacktrace) = 0 => built.out.StackTrace = ""
        /\ Len(built.stacktrace) = 1 => built.out.StackTrace = built.stacktrace[1]
        /\ Len(built.stacktrace) >= 2 => built.out.StackTrace = built.stacktrace[2]

C9_Witness ==
    /\ built.done
    /\ built.stacktrace = <<"a", "b", "c">>
    /\ built.out.StackTrace = "b"

\* C10: when Configure(c) is about to return, a failed call has left the
\* instance's config and sink handle as they were at the call, and a
\* successful one has set the handle to the new sink and the config to c;
\* every record emitted afterwards carries the AppName and Version of the
\* last c that was applied.
C10_ConfigureAllOrNothing ==
    /\ \A p \in Procs :
          pc[p] = "C_return" =>
              IF local[p].err
              THEN heap[local[p].s] = local[p].pre
              ELSE heap[local[p].s] =
                     [config |-> local[p].c, zapInstance |-> local[p].logger]
    /\ (emit # <<>> /\ local[emit[1].p].applied # <<>>) =>
          /\ Fld(emit[1], "app_name") = local[emit[1].p].applied[1].AppName
          /\ Fld(emit[1], "version") = local[emit[1].p].applied[1].Version
          /\ emit[1].sink = local[emit[1].p].logger

C10_Witness ==
    /\ emit # <<>>
    /\ local[Main].ncfg = 2
    /\ local[Main].err
    /\ local[Main].applied # <<>>
    /\ local[Main].c.AppName # local[Main].applied[1].AppName
    /\ Fld(emit[1], "app_name") = "app"

====
